---- MODULE Spec2Model ----
(***************************************************************************)
(* Model of the voting program (programs/voting-dapp/src/lib.rs) and of    *)
(* the address helpers of its Rust client (cli/src/utils.rs, client.rs).   *)
(*                                                                         *)
(* The ledger is a store of accounts keyed by address.  An instruction is  *)
(* executed in three phases, as the framework generates them: account      *)
(* validation (the #[derive(Accounts)] structs, which also run every       *)
(* `init`), the handler, and the exit that serialises the accounts back.   *)
(* A failure in any phase aborts the transaction and the ledger keeps the  *)
(* state it had before the instruction.                                    *)
(***************************************************************************)
EXTENDS Integers, Sequences, FiniteSets, TLC

VARIABLES accounts, clock, last, inflight

vars == <<accounts, clock, last, inflight>>

----------------------------------------------------------------------------
(* u64 values.  A u64 is kept as four 16-bit limbs, least significant      *)
(* first, so that the full width is present: U64_MAX is representable and  *)
(* to_le_bytes is computed from the value.                                 *)

LIMB == 65536

u64(n) == <<n % LIMB, (n \div LIMB) % LIMB, 0, 0>>

U64_MAX == <<LIMB - 1, LIMB - 1, LIMB - 1, LIMB - 1>>

\* The value of a u64 as a number; used only where the value is small.
as_nat(x) == x[1] + LIMB * x[2]

None == <<>>
Some(v) == <<v>>
unwrap(o) == o[1]

\* u64::wrapping_add: the sum modulo 2^64, never None.
wrapping_add(x, y) ==
    LET s1 == x[1] + y[1]
        s2 == x[2] + y[2] + (s1 \div LIMB)
        s3 == x[3] + y[3] + (s2 \div LIMB)
        s4 == x[4] + y[4] + (s3 \div LIMB)
    IN  Some(<<s1 % LIMB, s2 % LIMB, s3 % LIMB, s4 % LIMB>>)

\* u64::checked_add: None on overflow, else the sum.
checked_add(x, y) ==
    LET s1 == x[1] + y[1]
        s2 == x[2] + y[2] + (s1 \div LIMB)
        s3 == x[3] + y[3] + (s2 \div LIMB)
        s4 == x[4] + y[4] + (s3 \div LIMB)
    IN  IF s4 \div LIMB # 0
        THEN None
        ELSE Some(<<s1 % LIMB, s2 % LIMB, s3 % LIMB, s4 % LIMB>>)

----------------------------------------------------------------------------
(* Byte strings.  A byte string is a sequence of chunks: a chunk is a run  *)
(* of known bytes, or the 32 bytes of a public key (a key's bytes are the  *)
(* output of a hash, so they are kept as "the bytes of that key").  No two *)
(* runs of known bytes are adjacent and none is empty, so two byte strings *)
(* are equal exactly when their chunk sequences are.                       *)

Bytes(s) == IF s = <<>> THEN <<>> ELSE <<[w |-> Len(s), b |-> s, of |-> <<>>]>>

\* Pubkey::as_ref / to_bytes: the 32 bytes of a key.
as_ref(key) == <<[w |-> 32, b |-> <<>>, of |-> <<key>>]>>

IsRun(c) == c.of = <<>>

\* x followed by y.
Join(x, y) ==
    IF x = <<>> THEN y
    ELSE IF y = <<>> THEN x
    ELSE IF IsRun(x[Len(x)]) /\ IsRun(y[1])
    THEN SubSeq(x, 1, Len(x) - 1)
         \o <<[w |-> x[Len(x)].w + y[1].w, b |-> x[Len(x)].b \o y[1].b, of |-> <<>>]>>
         \o Tail(y)
    ELSE x \o y

RECURSIVE ByteLen(_)
ByteLen(s) == IF s = <<>> THEN 0 ELSE Head(s).w + ByteLen(Tail(s))

\* The poll id cut to its lowest byte (poll_id as u8).
to_u8_bytes(x) == Bytes(<<x[1] % 256>>)

\* u64::to_le_bytes: eight bytes, least significant first.
to_le_bytes(x) ==
    Bytes(<<x[1] % 256, x[1] \div 256, x[2] % 256, x[2] \div 256,
            x[3] % 256, x[3] \div 256, x[4] % 256, x[4] \div 256>>)

\* b"poll", b"candidate", b"receipt"
POLL_SEED == Bytes(<<112, 111, 108, 108>>)
CANDIDATE_SEED == Bytes(<<99, 97, 110, 100, 105, 100, 97, 116, 101>>)
RECEIPT_SEED == Bytes(<<114, 101, 99, 101, 105, 112, 116>>)

----------------------------------------------------------------------------
(* Addresses.  A wallet key is named by a number.  A program-derived       *)
(* address is the hash of the concatenated seeds; the hash is collision    *)
(* resistant, so the address is represented by what was hashed.            *)

Wallet(i) == [kind |-> "wallet", id |-> i, pre |-> <<>>]

RECURSIVE Concat(_)
Concat(seeds) == IF seeds = <<>> THEN <<>> ELSE Join(Head(seeds), Concat(Tail(seeds)))

\* A seed longer than this makes the derivation fail.
MAX_SEED_LEN == 32

SeedsTooLong(seeds) == \E i \in 1..Len(seeds) : ByteLen(seeds[i]) > MAX_SEED_LEN

\* Pubkey::find_program_address(seeds, program_id), the address part.
find_program_address(seeds) == [kind |-> "pda", id |-> 0, pre |-> Concat(seeds)]

\* cli/src/utils.rs
get_poll_address(poll_id) ==
    find_program_address(<<POLL_SEED, to_le_bytes(poll_id)>>)

get_candidate_address(poll_id, candidate_name) ==
    find_program_address(<<CANDIDATE_SEED, to_le_bytes(poll_id), Bytes(candidate_name)>>)

get_receipt_address(poll_id, voter) ==
    find_program_address(<<RECEIPT_SEED, to_le_bytes(poll_id), as_ref(voter)>>)

\* The seeds the program's account validation derives from.
PollSeeds(poll_id) == <<POLL_SEED, to_le_bytes(poll_id)>>

\* Candidate seeds without the poll: a name is unique on the whole ledger.
CandidateSeeds_name_only(poll, candidate_name) ==
    <<CANDIDATE_SEED, Bytes(candidate_name)>>

CandidateSeeds(poll, candidate_name) ==
    <<CANDIDATE_SEED, as_ref(poll), Bytes(candidate_name)>>

\* Receipt seeds without the poll: one receipt per voter.
ReceiptSeeds_voter_only(poll, voter) == <<RECEIPT_SEED, as_ref(voter)>>

ReceiptSeeds(poll, voter) == <<RECEIPT_SEED, as_ref(poll), as_ref(voter)>>

----------------------------------------------------------------------------
(* Account data.  question, description and party are never inspected by   *)
(* the program: a string of those fields is represented by its length in   *)
(* bytes.  A candidate name is a sequence of bytes (it is a seed).         *)

QUESTION_MAX_LEN == 200
DESCRIPTION_MAX_LEN == 280
NAME_MAX_LEN == 50
PARTY_MAX_LEN == 30

\* #[derive(InitSpace)]: the space reserved for each struct.
Poll_INIT_SPACE ==
    8 + 32 + (4 + QUESTION_MAX_LEN) + (4 + DESCRIPTION_MAX_LEN) + 8 + 8 + 8

Candidate_INIT_SPACE == 32 + (4 + NAME_MAX_LEN) + (4 + PARTY_MAX_LEN) + 8

VoterReceipt_INIT_SPACE == 32 + 32 + 1

\* The serialised size of a value of each struct (length-prefixed strings).
PollSize(p) == 8 + 32 + (4 + p.question) + (4 + p.description) + 8 + 8 + 8

CandidateSize(c) == 32 + (4 + Len(c.name)) + (4 + c.party) + 8

VoterReceiptSize(r) == 32 + 32 + 1

\* The 8-byte type tags the program writes: #[account] makes the tag of a struct
\* the first 8 bytes of sha256("account:<StructName>").
POLL_DISCRIMINATOR == <<110, 234, 167, 188, 231, 136, 153, 111>>
CANDIDATE_DISCRIMINATOR == <<86, 69, 250, 96, 193, 10, 222, 123>>
RECEIPT_DISCRIMINATOR == <<94, 230, 87, 51, 169, 216, 144, 98>>

\* The tags the client expects: the DISCRIMINATOR constants of cli/src/client.rs.
Poll_DISCRIMINATOR == <<110, 234, 189, 127, 197, 119, 248, 65>>
Candidate_DISCRIMINATOR == <<176, 27, 202, 124, 178, 75, 76, 43>>
VoterReceipt_DISCRIMINATOR == <<36, 100, 107, 120, 65, 243, 217, 180>>
ZERO_DISCRIMINATOR == <<0, 0, 0, 0, 0, 0, 0, 0>>

DefaultKey == [kind |-> "default", id |-> 0, pre |-> <<>>]

\* What a freshly created (all zero) account of each type reads as.
ZeroPoll ==
    [poll_id |-> u64(0), creator |-> DefaultKey, question |-> 0, description |-> 0,
     start_time |-> 0, end_time |-> 0, candidate_count |-> u64(0)]

ZeroCandidate == [poll |-> DefaultKey, name |-> <<>>, party |-> 0, votes |-> u64(0)]

ZeroVoterReceipt == [poll |-> DefaultKey, voter |-> DefaultKey, has_voted |-> FALSE]

----------------------------------------------------------------------------
(* The account store and the framework's account handling.                 *)

OK == "ok"

Res(e, a) == [err |-> e, accounts |-> a]

Put(accts, addr, acc) ==
    [a \in (DOMAIN accts) \cup {addr} |-> IF a = addr THEN acc ELSE accts[a]]

Occupied(accts, addr) == addr \in DOMAIN accts

\* init as `init_if_needed` would behave: an occupied address is taken as it is.
init_if_needed(accts, addr, space, zero) ==
    IF Occupied(accts, addr)
    THEN Res(OK, accts)
    ELSE Res(OK, Put(accts, addr,
                     [disc |-> ZERO_DISCRIMINATOR, space |-> space, data |-> zero]))

\* `init`: create the account at addr; the store refuses an occupied address.
init(accts, addr, space, zero) ==
    IF Occupied(accts, addr)
    THEN Res("AlreadyExists", accts)
    ELSE Res(OK, Put(accts, addr,
                     [disc |-> ZERO_DISCRIMINATOR, space |-> space, data |-> zero]))

\* Account<'info, T>: the account must exist, be the program's, and carry T's tag.
load(accts, addr, disc) ==
    IF addr.kind # "pda" THEN "AccountOwnedByWrongProgram"
    ELSE IF ~Occupied(accts, addr) THEN "AccountNotInitialized"
    ELSE IF accts[addr].disc # disc THEN "AccountDiscriminatorMismatch"
    ELSE OK

\* The exit of an account: tag and fields are written back if they fit.
exit(accts, addr, disc, data, size) ==
    IF 8 + size > accts[addr].space
    THEN Res("AccountDidNotSerialize", accts)
    ELSE Res(OK, Put(accts, addr,
                     [disc |-> disc, space |-> accts[addr].space, data |-> data]))

\* A transaction is atomic: a failed instruction leaves the store as it was.
Transaction(pre, r) == IF r.err = OK THEN r.accounts ELSE pre

----------------------------------------------------------------------------
(* initialize_poll                                                         *)

\* #[derive(Accounts)] InitializePoll
InitializePoll(accts, ix) ==
    IF ix.poll # find_program_address(PollSeeds(ix.poll_id))
    THEN Res("ConstraintSeeds", accts)
    ELSE init(accts, ix.poll, 8 + Poll_INIT_SPACE, ZeroPoll)

\* initialize_poll accepting start_time = end_time.
initialize_poll_allow_equal(ctx, ix) ==
    IF ~(ix.start_time <= ix.end_time)
    THEN [err |-> "InvalidTimeRange", ctx |-> ctx]
    ELSE [err |-> OK,
          ctx |-> [ctx EXCEPT !.poll =
                      [poll_id |-> ix.poll_id, creator |-> ix.creator,
                       question |-> ix.question, description |-> ix.description,
                       start_time |-> ix.start_time, end_time |-> ix.end_time,
                       candidate_count |-> u64(0)]]]

\* initialize_poll forgetting to record the creator.
initialize_poll_no_creator(ctx, ix) ==
    IF ~(ix.start_time < ix.end_time)
    THEN [err |-> "InvalidTimeRange", ctx |-> ctx]
    ELSE [err |-> OK,
          ctx |-> [ctx EXCEPT !.poll =
                      [poll_id |-> ix.poll_id, creator |-> ctx.poll.creator,
                       question |-> ix.question, description |-> ix.description,
                       start_time |-> ix.start_time, end_time |-> ix.end_time,
                       candidate_count |-> u64(0)]]]

\* The handler: the time-range check, then every field of the poll is set.
initialize_poll(ctx, ix) ==
    IF ~(ix.start_time < ix.end_time)
    THEN [err |-> "InvalidTimeRange", ctx |-> ctx]
    ELSE [err |-> OK,
          ctx |-> [ctx EXCEPT !.poll =
                      [poll_id |-> ix.poll_id, creator |-> ix.creator,
                       question |-> ix.question, description |-> ix.description,
                       start_time |-> ix.start_time, end_time |-> ix.end_time,
                       candidate_count |-> u64(0)]]]

process_initialize_poll(accts, ix) ==
    LET v == InitializePoll(accts, ix)
    IN  IF v.err # OK THEN v
        ELSE LET h == initialize_poll([poll |-> v.accounts[ix.poll].data], ix)
             IN  IF h.err # OK THEN Res(h.err, v.accounts)
                 ELSE exit(v.accounts, ix.poll, POLL_DISCRIMINATOR,
                           h.ctx.poll, PollSize(h.ctx.poll))

----------------------------------------------------------------------------
(* initialize_candidate                                                    *)

\* #[derive(Accounts)] InitializeCandidate
InitializeCandidate(accts, ix) ==
    LET seeds == CandidateSeeds(ix.poll, ix.candidate_name)
        e == load(accts, ix.poll, POLL_DISCRIMINATOR)
    IN  IF e # OK THEN Res(e, accts)
        ELSE IF SeedsTooLong(seeds) THEN Res("MaxSeedLengthExceeded", accts)
        ELSE IF ix.candidate # find_program_address(seeds)
        THEN Res("ConstraintSeeds", accts)
        ELSE init(accts, ix.candidate, 8 + Candidate_INIT_SPACE, ZeroCandidate)

\* initialize_candidate without the creator check.
initialize_candidate_no_auth(ctx, ix) ==
    LET count == checked_add(ctx.poll.candidate_count, u64(1))
    IN  IF count = None
        THEN [err |-> "Panic", ctx |-> ctx]
        ELSE [err |-> OK,
              ctx |-> [poll |-> [ctx.poll EXCEPT !.candidate_count = unwrap(count)],
                       candidate |-> [poll |-> ix.poll,
                                      name |-> ix.candidate_name,
                                      party |-> ix.candidate_party,
                                      votes |-> u64(0)]]]

\* initialize_candidate without the candidate_count increment.
initialize_candidate_no_count(ctx, ix) ==
    IF ctx.poll.creator # ix.creator
    THEN [err |-> "Unauthorized", ctx |-> ctx]
    ELSE [err |-> OK,
          ctx |-> [poll |-> ctx.poll,
                   candidate |-> [poll |-> ix.poll,
                                  name |-> ix.candidate_name,
                                  party |-> ix.candidate_party,
                                  votes |-> u64(0)]]]

\* initialize_candidate that also moves the poll's end_time one later.
initialize_candidate_extends_poll(ctx, ix) ==
    IF ctx.poll.creator # ix.creator
    THEN [err |-> "Unauthorized", ctx |-> ctx]
    ELSE LET count == checked_add(ctx.poll.candidate_count, u64(1))
         IN  IF count = None
             THEN [err |-> "Panic", ctx |-> ctx]
             ELSE [err |-> OK,
                   ctx |-> [poll |-> [ctx.poll EXCEPT !.candidate_count = unwrap(count),
                                                      !.end_time = @ + 1],
                            candidate |-> [poll |-> ix.poll,
                                           name |-> ix.candidate_name,
                                           party |-> ix.candidate_party,
                                           votes |-> u64(0)]]]

\* The handler: creator check, candidate fields, candidate_count + 1.
initialize_candidate(ctx, ix) ==
    IF ctx.poll.creator # ix.creator
    THEN [err |-> "Unauthorized", ctx |-> ctx]
    ELSE LET count == checked_add(ctx.poll.candidate_count, u64(1))
         IN  IF count = None
             THEN [err |-> "Panic", ctx |-> ctx]
             ELSE [err |-> OK,
                   ctx |-> [poll |-> [ctx.poll EXCEPT !.candidate_count = unwrap(count)],
                            candidate |-> [poll |-> ix.poll,
                                           name |-> ix.candidate_name,
                                           party |-> ix.candidate_party,
                                           votes |-> u64(0)]]]

process_initialize_candidate(accts, ix) ==
    LET v == InitializeCandidate(accts, ix)
    IN  IF v.err # OK THEN v
        ELSE LET h == initialize_candidate(
                          [poll |-> v.accounts[ix.poll].data,
                           candidate |-> v.accounts[ix.candidate].data], ix)
             IN  IF h.err # OK THEN Res(h.err, v.accounts)
                 ELSE LET p == exit(v.accounts, ix.poll, POLL_DISCRIMINATOR,
                                    h.ctx.poll, PollSize(h.ctx.poll))
                      IN  IF p.err # OK THEN p
                          ELSE exit(p.accounts, ix.candidate, CANDIDATE_DISCRIMINATOR,
                                    h.ctx.candidate, CandidateSize(h.ctx.candidate))

----------------------------------------------------------------------------
(* vote                                                                    *)

\* Vote with the receipt declared init_if_needed.
Vote_init_if_needed(accts, ix) ==
    LET ep == load(accts, ix.poll, POLL_DISCRIMINATOR)
        ec == load(accts, ix.candidate, CANDIDATE_DISCRIMINATOR)
    IN  IF ep # OK THEN Res(ep, accts)
        ELSE IF ec # OK THEN Res(ec, accts)
        ELSE IF ix.voter_receipt # find_program_address(ReceiptSeeds(ix.poll, ix.voter))
        THEN Res("ConstraintSeeds", accts)
        ELSE init_if_needed(accts, ix.voter_receipt, 8 + VoterReceipt_INIT_SPACE,
                            ZeroVoterReceipt)

\* Vote with init_if_needed on the candidate: a missing candidate is created empty.
Vote_candidate_init_if_needed(accts, ix) ==
    LET ep == load(accts, ix.poll, POLL_DISCRIMINATOR)
        withc == IF Occupied(accts, ix.candidate) THEN accts
                 ELSE init(accts, ix.candidate, 8 + Candidate_INIT_SPACE,
                           ZeroCandidate).accounts
    IN  IF ep # OK THEN Res(ep, accts)
        ELSE IF ix.voter_receipt # find_program_address(ReceiptSeeds(ix.poll, ix.voter))
        THEN Res("ConstraintSeeds", accts)
        ELSE init(withc, ix.voter_receipt, 8 + VoterReceipt_INIT_SPACE, ZeroVoterReceipt)

\* #[derive(Accounts)] Vote
Vote(accts, ix) ==
    LET ep == load(accts, ix.poll, POLL_DISCRIMINATOR)
        ec == load(accts, ix.candidate, CANDIDATE_DISCRIMINATOR)
    IN  IF ep # OK THEN Res(ep, accts)
        ELSE IF ec # OK THEN Res(ec, accts)
        ELSE IF ix.voter_receipt # find_program_address(ReceiptSeeds(ix.poll, ix.voter))
        THEN Res("ConstraintSeeds", accts)
        ELSE init(accts, ix.voter_receipt, 8 + VoterReceipt_INIT_SPACE, ZeroVoterReceipt)

\* vote with the end of the window exclusive.
vote_end_exclusive(ctx, now, ix) ==
    IF ~(now >= ctx.poll.start_time /\ now < ctx.poll.end_time)
    THEN [err |-> "PollNotActive", ctx |-> ctx]
    ELSE LET votes == checked_add(ctx.candidate.votes, u64(1))
         IN  IF votes = None
             THEN [err |-> "Panic", ctx |-> ctx]
             ELSE [err |-> OK,
                   ctx |-> [poll |-> ctx.poll,
                            candidate |-> [ctx.candidate EXCEPT !.votes = unwrap(votes)],
                            voter_receipt |-> [poll |-> ix.poll, voter |-> ix.voter,
                                               has_voted |-> TRUE]]]

\* vote returning Ok(()) early, instead of an error, when the poll is not active.
vote_silent_return(ctx, now, ix) ==
    IF ~(now >= ctx.poll.start_time /\ now <= ctx.poll.end_time)
    THEN [err |-> OK, ctx |-> ctx]
    ELSE LET votes == checked_add(ctx.candidate.votes, u64(1))
         IN  IF votes = None
             THEN [err |-> "Panic", ctx |-> ctx]
             ELSE [err |-> OK,
                   ctx |-> [poll |-> ctx.poll,
                            candidate |-> [ctx.candidate EXCEPT !.votes = unwrap(votes)],
                            voter_receipt |-> [poll |-> ix.poll, voter |-> ix.voter,
                                               has_voted |-> TRUE]]]

\* vote writing the candidate's poll, not the poll account's key, in the receipt.
vote_receipt_of_candidate_poll(ctx, now, ix) ==
    IF ~(now >= ctx.poll.start_time /\ now <= ctx.poll.end_time)
    THEN [err |-> "PollNotActive", ctx |-> ctx]
    ELSE LET votes == checked_add(ctx.candidate.votes, u64(1))
         IN  IF votes = None
             THEN [err |-> "Panic", ctx |-> ctx]
             ELSE [err |-> OK,
                   ctx |-> [poll |-> ctx.poll,
                            candidate |-> [ctx.candidate EXCEPT !.votes = unwrap(votes)],
                            voter_receipt |-> [poll |-> ctx.candidate.poll,
                                               voter |-> ix.voter,
                                               has_voted |-> TRUE]]]

\* The handler: the window check against the ledger clock, votes + 1, the receipt.
vote(ctx, now, ix) ==
    IF ~(now >= ctx.poll.start_time /\ now <= ctx.poll.end_time)
    THEN [err |-> "PollNotActive", ctx |-> ctx]
    ELSE LET votes == checked_add(ctx.candidate.votes, u64(1))
         IN  IF votes = None
             THEN [err |-> "Panic", ctx |-> ctx]
             ELSE [err |-> OK,
                   ctx |-> [poll |-> ctx.poll,
                            candidate |-> [ctx.candidate EXCEPT !.votes = unwrap(votes)],
                            voter_receipt |-> [poll |-> ix.poll, voter |-> ix.voter,
                                               has_voted |-> TRUE]]]

process_vote(accts, now, ix) ==
    LET v == Vote(accts, ix)
    IN  IF v.err # OK THEN v
        ELSE LET h == vote([poll |-> v.accounts[ix.poll].data,
                            candidate |-> v.accounts[ix.candidate].data,
                            voter_receipt |-> v.accounts[ix.voter_receipt].data],
                           now, ix)
             IN  IF h.err # OK THEN Res(h.err, v.accounts)
                 ELSE LET c == exit(v.accounts, ix.candidate, CANDIDATE_DISCRIMINATOR,
                                    h.ctx.candidate, CandidateSize(h.ctx.candidate))
                      IN  IF c.err # OK THEN c
                          ELSE exit(c.accounts, ix.voter_receipt, RECEIPT_DISCRIMINATOR,
                                    h.ctx.voter_receipt,
                                    VoterReceiptSize(h.ctx.voter_receipt))

----------------------------------------------------------------------------
(* The client (cli/src/client.rs): the instruction each method submits.    *)

VotingClient_initialize_poll(payer, poll_id, question, description, start_time, end_time) ==
    [poll |-> get_poll_address(poll_id), creator |-> payer, poll_id |-> poll_id,
     question |-> question, description |-> description,
     start_time |-> start_time, end_time |-> end_time]

VotingClient_add_candidate(payer, poll_id, name, party) ==
    [poll |-> get_poll_address(poll_id),
     candidate |-> get_candidate_address(poll_id, name),
     creator |-> payer, candidate_name |-> name, candidate_party |-> party]

VotingClient_vote(payer, poll_id, candidate_name) ==
    [poll |-> get_poll_address(poll_id),
     candidate |-> get_candidate_address(poll_id, candidate_name),
     voter_receipt |-> get_receipt_address(poll_id, payer),
     voter |-> payer]

----------------------------------------------------------------------------
(* The inputs the model draws from.                                        *)

MaxClock == 3

\* The values the ledger clock takes.
Times == 0..MaxClock

Wallets == {Wallet(1), Wallet(2)}
\* "A", "B", and a name of 33 bytes
LongName == [i \in 1..33 |-> 67]
ShortNames == {<<65>>, <<66>>}
\* (start_time, end_time): two valid windows, an empty one and a reversed one
Windows == {<<1, 2>>, <<2, 3>>, <<1, 1>>, <<2, 0>>}
ShortLen == 8
LongQuestion == 600
LongParty == 90

\* The instructions of a caller that derives every address as the program does.
PollIx(creator, poll_id, question, window) ==
    [poll |-> find_program_address(PollSeeds(poll_id)), creator |-> creator,
     poll_id |-> poll_id, question |-> question, description |-> ShortLen,
     start_time |-> window[1], end_time |-> window[2]]

CandidateIx(creator, poll, name, party) ==
    [poll |-> poll, candidate |-> find_program_address(CandidateSeeds(poll, name)),
     creator |-> creator, candidate_name |-> name, candidate_party |-> party]

VoteIx(voter, poll, candidate) ==
    [poll |-> poll, candidate |-> candidate,
     voter_receipt |-> find_program_address(ReceiptSeeds(poll, voter)),
     voter |-> voter]

PollAddrs(ids) == {get_poll_address(p) : p \in ids}

CandidateAddrs(ids) ==
    {find_program_address(CandidateSeeds(p, n)) : p \in PollAddrs(ids), n \in ShortNames}

\* The instructions submitted for the poll ids `ids`: well-formed ones with every
\* argument varied, one with each over-long field, one naming an address that is
\* not the derived one, and the ones the client builds.
InitializePollIxs(ids) ==
    {PollIx(w, p, ShortLen, win) : w \in Wallets, p \in ids, win \in Windows}
    \cup {PollIx(w, p, LongQuestion, <<1, 2>>) : w \in Wallets, p \in ids}
    \cup {[PollIx(w, p, ShortLen, <<1, 2>>) EXCEPT !.poll = get_poll_address(u64(0))] :
            w \in Wallets, p \in ids}

InitializeCandidateIxs(ids) ==
    {CandidateIx(w, pa, n, ShortLen) :
        w \in Wallets, pa \in PollAddrs(ids), n \in ShortNames \cup {LongName}}
    \cup {CandidateIx(w, pa, <<65>>, LongParty) : w \in Wallets, pa \in PollAddrs(ids)}
    \cup {VotingClient_add_candidate(w, p, n, ShortLen) :
            w \in Wallets, p \in ids, n \in ShortNames}

VoteIxs(ids) ==
    {VoteIx(w, pa, ca) : w \in Wallets, pa \in PollAddrs(ids), ca \in CandidateAddrs(ids)}
    \cup {VotingClient_vote(w, p, n) : w \in Wallets, p \in ids, n \in ShortNames}

----------------------------------------------------------------------------
(* The state machine.                                                      *)

NoAccounts == [a \in {} |-> TRUE]

Init ==
    /\ accounts = NoAccounts
    /\ clock = 0
    /\ last = [op |-> "none", err |-> OK]
    /\ inflight = {}

SendInitializePoll(ix) ==
    LET r == process_initialize_poll(accounts, ix)
    IN  /\ accounts' = Transaction(accounts, r)
        /\ last' = [op |-> "initialize_poll", err |-> r.err]
        /\ UNCHANGED <<clock, inflight>>

SendInitializeCandidate(ix) ==
    LET r == process_initialize_candidate(accounts, ix)
    IN  /\ accounts' = Transaction(accounts, r)
        /\ last' = [op |-> "initialize_candidate", err |-> r.err]
        /\ UNCHANGED <<clock, inflight>>

SendVote(ix) ==
    LET r == process_vote(accounts, clock, ix)
    IN  /\ accounts' = Transaction(accounts, r)
        /\ last' = [op |-> "vote", err |-> r.err]
        /\ UNCHANGED <<clock, inflight>>

\* The ledger clock advances.
Tick ==
    /\ clock < MaxClock
    /\ clock' = clock + 1
    /\ UNCHANGED <<accounts, last, inflight>>

\* One poll id.
OnePoll == {u64(1)}

Next ==
    \/ \E ix \in InitializePollIxs(OnePoll) : SendInitializePoll(ix)
    \/ \E ix \in InitializeCandidateIxs(OnePoll) : SendInitializeCandidate(ix)
    \/ \E ix \in VoteIxs(OnePoll) : SendVote(ix)
    \/ Tick

Spec == Init /\ [][Next]_vars

----------------------------------------------------------------------------
(* What the properties speak of.                                           *)

PollsOf(accts) == {a \in DOMAIN accts : accts[a].disc = POLL_DISCRIMINATOR}

CandidatesOf(accts) == {a \in DOMAIN accts : accts[a].disc = CANDIDATE_DISCRIMINATOR}

ReceiptsOf(accts) == {a \in DOMAIN accts : accts[a].disc = RECEIPT_DISCRIMINATOR}

InWindow(poll, t) == poll.start_time <= t /\ t <= poll.end_time

ReceiptAddr(poll, voter) == find_program_address(ReceiptSeeds(poll, voter))

\* Candidate "A" of poll p.
CandidateA(p) == find_program_address(CandidateSeeds(p, <<65>>))

RECURSIVE SumVotes(_, _)
SumVotes(accts, S) ==
    IF S = {} THEN 0
    ELSE LET c == CHOOSE x \in S : TRUE
         IN  as_nat(accts[c].data.votes) + SumVotes(accts, S \ {c})

TotalVotes(accts) == SumVotes(accts, CandidatesOf(accts))

\* The outcome of a vote instruction in the current state, and the store after it.
VoteNow(ix) == process_vote(accounts, clock, ix)
AfterVote(ix) == Transaction(accounts, VoteNow(ix))

----------------------------------------------------------------------------
(* C1: inside a poll's window, a voter's first vote in that poll succeeds, *)
(* adds exactly 1 to the chosen candidate's votes (no other account        *)
(* changes) and creates the receipt of (poll, voter) with has_voted =      *)
(* TRUE; once that receipt exists, every vote of the voter in that poll,   *)
(* for any candidate, fails with AlreadyExists and changes nothing.        *)
C1_OneVotePerVoter ==
    \A v \in Wallets : \A p \in PollsOf(accounts) : \A c \in CandidatesOf(accounts) :
        LET ix == VoteIx(v, p, c)
            ra == ReceiptAddr(p, v)
            post == AfterVote(ix)
        IN  InWindow(accounts[p].data, clock) =>
              IF ~Occupied(accounts, ra)
              THEN /\ VoteNow(ix).err = OK
                   /\ as_nat(post[c].data.votes) = as_nat(accounts[c].data.votes) + 1
                   /\ DOMAIN post = (DOMAIN accounts) \cup {ra}
                   /\ \A a \in (DOMAIN accounts) \ {c} : post[a] = accounts[a]
                   /\ post[c] = [accounts[c] EXCEPT !.data.votes = post[c].data.votes]
                   /\ post[ra].disc = RECEIPT_DISCRIMINATOR
                   /\ post[ra].data = [poll |-> p, voter |-> v, has_voted |-> TRUE]
              ELSE /\ VoteNow(ix).err = "AlreadyExists"
                   /\ post = accounts

\* A voter who has voted was refused a second vote while the poll was still open.
C1_Witness ==
    /\ last = [op |-> "vote", err |-> "AlreadyExists"]
    /\ \E p \in PollsOf(accounts) : InWindow(accounts[p].data, clock)
    /\ \E c \in CandidatesOf(accounts) : as_nat(accounts[c].data.votes) = 1
    /\ Cardinality(CandidatesOf(accounts)) = 2

----------------------------------------------------------------------------
(* C2 as stated: a vote at a time outside [start_time, end_time] fails     *)
(* with PollNotActive and changes nothing.                                 *)
C2_OutsideWindowIsPollNotActive ==
    \A v \in Wallets : \A p \in PollsOf(accounts) : \A c \in CandidatesOf(accounts) :
        ~InWindow(accounts[p].data, clock) =>
            /\ VoteNow(VoteIx(v, p, c)).err = "PollNotActive"
            /\ AfterVote(VoteIx(v, p, c)) = accounts

\* The handler's verdict on the accounts of ix at time t.
VoteHandlerAt(ix, t) ==
    vote([poll |-> accounts[ix.poll].data, candidate |-> accounts[ix.candidate].data,
          voter_receipt |-> ZeroVoterReceipt], t, ix).err

(* C2, amended: the handler's time check passes exactly when start_time <= *)
(* t <= end_time, both ends included; a vote at a time outside the window  *)
(* fails and changes nothing, with PollNotActive when the voter has no     *)
(* receipt in the poll and with AlreadyExists when the voter has one (the  *)
(* receipt is created before the handler checks the time).                 *)
C2_TimeCheck ==
    \A v \in Wallets : \A p \in PollsOf(accounts) : \A c \in CandidatesOf(accounts) :
        LET ix == VoteIx(v, p, c)
            poll == accounts[p].data
        IN  /\ \A t \in Times :
                 (VoteHandlerAt(ix, t) # "PollNotActive")
                    <=> (poll.start_time <= t /\ t <= poll.end_time)
            /\ InWindow(poll, clock) => VoteNow(ix).err # "PollNotActive"
            /\ ~InWindow(poll, clock) =>
                 /\ VoteNow(ix).err =
                      IF Occupied(accounts, ReceiptAddr(p, v))
                      THEN "AlreadyExists" ELSE "PollNotActive"
                 /\ AfterVote(ix) = accounts

\* A vote was refused with PollNotActive after the poll's end.
C2_Witness ==
    /\ last = [op |-> "vote", err |-> "PollNotActive"]
    /\ \E p \in PollsOf(accounts) : clock > accounts[p].data.end_time
    /\ CandidatesOf(accounts) # {}

----------------------------------------------------------------------------
(* Votes in flight.  A vote transaction is submitted, waits, and is then   *)
(* executed by the ledger as one unit; the ledger executes the waiting     *)
(* transactions that write the same account one after the other, in any    *)
(* order.                                                                  *)

MaxInflight == 2

\* The store after poll 1 has been created by wallet 1 with the window win and
\* the candidates "A" and "B" have been registered in it.
RaceStore(win) ==
    LET p == PollIx(Wallet(1), u64(1), ShortLen, win)
        s1 == Transaction(NoAccounts, process_initialize_poll(NoAccounts, p))
        a == CandidateIx(Wallet(1), p.poll, <<65>>, ShortLen)
        s2 == Transaction(s1, process_initialize_candidate(s1, a))
        b == CandidateIx(Wallet(1), p.poll, <<66>>, ShortLen)
    IN  Transaction(s2, process_initialize_candidate(s2, b))

RaceInit ==
    /\ accounts \in {RaceStore(win) : win \in {w \in Windows : w[1] < w[2]}}
    /\ clock = 0
    /\ last = [op |-> "none", err |-> OK]
    /\ inflight = {}

\* A voter submits a vote while no submitted vote has been executed yet.
SubmitVote(ix) ==
    /\ Cardinality(inflight) < MaxInflight
    /\ \A e \in inflight : e.res = "pending"
    /\ inflight' = inflight \cup
          {[id |-> Cardinality(inflight) + 1, ix |-> ix, res |-> "pending",
            at |-> 0, gain |-> 0]}
    /\ UNCHANGED <<accounts, clock, last>>

\* The ledger executes one of the waiting votes; the entry keeps the outcome, the
\* time, and by how much the votes of all candidates grew.
ProcessVote(e) ==
    LET r == process_vote(accounts, clock, e.ix)
        post == Transaction(accounts, r)
    IN  /\ e.res = "pending"
        /\ accounts' = post
        /\ last' = [op |-> "vote", err |-> r.err]
        /\ inflight' = (inflight \ {e}) \cup
              {[e EXCEPT !.res = r.err, !.at = clock,
                         !.gain = TotalVotes(post) - TotalVotes(accounts)]}
        /\ UNCHANGED clock

NextRace ==
    \/ \E v \in Wallets : \E p \in PollsOf(accounts) : \E c \in CandidatesOf(accounts) :
          SubmitVote(VoteIx(v, p, c))
    \/ \E e \in inflight : ProcessVote(e)
    \/ Tick

SpecRace == RaceInit /\ [][NextRace]_vars

\* The votes in flight of voter v in poll p.
Racing(p, v) == {e \in inflight : e.ix.poll = p /\ e.ix.voter = v}

(* C3: when two (or more) votes of the same voter in the same poll are in  *)
(* flight together, for the same or for different candidates, and all have *)
(* been executed, in whatever order, at times inside the poll's window,    *)
(* then exactly one of them succeeded and added exactly 1 to the votes,    *)
(* every other one failed with AlreadyExists and added nothing, and        *)
(* exactly one receipt exists for (poll, voter).                           *)
C3_RaceOneWins ==
    \A p \in PollsOf(accounts) : \A v \in Wallets :
        LET G == Racing(p, v)
        IN  (/\ Cardinality(G) >= 2
             /\ \A e \in G : e.res # "pending" /\ InWindow(accounts[p].data, e.at))
            => /\ Cardinality({e \in G : e.res = OK}) = 1
               /\ \A e \in G : \/ e.res = OK /\ e.gain = 1
                               \/ e.res = "AlreadyExists" /\ e.gain = 0
               /\ Cardinality({r \in ReceiptsOf(accounts) :
                                  /\ accounts[r].data.poll = p
                                  /\ accounts[r].data.voter = v}) = 1
               /\ Occupied(accounts, ReceiptAddr(p, v))

\* Two votes of one voter for different candidates raced; the one submitted
\* second was executed first and won, the other was refused.
C3_Witness ==
    \E e1 \in inflight : \E e2 \in inflight :
        /\ e1.id = 1 /\ e2.id = 2
        /\ e1.ix.voter = e2.ix.voter /\ e1.ix.poll = e2.ix.poll
        /\ e1.ix.candidate # e2.ix.candidate
        /\ e1.res = "AlreadyExists" /\ e2.res = OK
        /\ TotalVotes(accounts) = 1

----------------------------------------------------------------------------
\* The outcome of the other two instructions in the current state.
PollNow(ix) == process_initialize_poll(accounts, ix)
AfterPoll(ix) == Transaction(accounts, PollNow(ix))
CandidateNow(ix) == process_initialize_candidate(accounts, ix)
AfterCandidate(ix) == Transaction(accounts, CandidateNow(ix))

ValidWindows == {w \in Windows : w[1] < w[2]}

(* C6: with start_time < end_time (and strings that fit the account),      *)
(* initialize_poll on a poll_id whose address is free succeeds and stores  *)
(* a Poll with the arguments, creator = the caller and candidate_count =   *)
(* 0, changing no other account; on a poll_id whose address is occupied it *)
(* fails with AlreadyExists, whoever calls, and the Poll stays as it was.  *)
C6_PollCreatedOnce ==
    \A w \in Wallets : \A id \in OnePoll : \A win \in ValidWindows :
        LET ix == PollIx(w, id, ShortLen, win)
            post == AfterPoll(ix)
        IN  IF ~Occupied(accounts, ix.poll)
            THEN /\ PollNow(ix).err = OK
                 /\ DOMAIN post = (DOMAIN accounts) \cup {ix.poll}
                 /\ \A a \in DOMAIN accounts : post[a] = accounts[a]
                 /\ post[ix.poll].disc = POLL_DISCRIMINATOR
                 /\ post[ix.poll].data =
                       [poll_id |-> id, creator |-> w, question |-> ShortLen,
                        description |-> ShortLen, start_time |-> win[1],
                        end_time |-> win[2], candidate_count |-> u64(0)]
            ELSE /\ PollNow(ix).err = "AlreadyExists"
                 /\ post = accounts

\* A second initialize_poll for an existing poll was refused.
C6_Witness ==
    /\ last = [op |-> "initialize_poll", err |-> "AlreadyExists"]
    /\ \E p \in PollsOf(accounts) :
          /\ accounts[p].data.creator \in Wallets
          /\ accounts[p].data.candidate_count = u64(0)

----------------------------------------------------------------------------
InvalidWindows == {w \in Windows : w[1] >= w[2]}

(* C7 as stated: initialize_poll with start_time >= end_time fails with    *)
(* InvalidTimeRange in every state of the store and creates no record.     *)
C7_AlwaysInvalidTimeRange ==
    \A w \in Wallets : \A id \in OnePoll : \A win \in InvalidWindows :
        /\ PollNow(PollIx(w, id, ShortLen, win)).err = "InvalidTimeRange"
        /\ AfterPoll(PollIx(w, id, ShortLen, win)) = accounts

(* C7, amended: initialize_poll with start_time >= end_time always fails   *)
(* and leaves the store unchanged; the failure is InvalidTimeRange when    *)
(* the poll's address is free and AlreadyExists when it is occupied (the   *)
(* account is created before the handler checks the times).                *)
C7_InvalidRangeFails ==
    \A w \in Wallets : \A id \in OnePoll : \A win \in InvalidWindows :
        LET ix == PollIx(w, id, ShortLen, win)
        IN  /\ PollNow(ix).err =
                  IF Occupied(accounts, ix.poll) THEN "AlreadyExists"
                  ELSE "InvalidTimeRange"
            /\ AfterPoll(ix) = accounts

\* initialize_poll was refused with InvalidTimeRange and no poll exists.
C7_Witness ==
    /\ last = [op |-> "initialize_poll", err |-> "InvalidTimeRange"]
    /\ PollsOf(accounts) = {}

----------------------------------------------------------------------------
\* initialize_candidate on an existing poll, by either wallet, for a name whose
\* address can be derived.
CandidateCalls ==
    {CandidateIx(w, p, n, ShortLen) : w \in Wallets, p \in PollsOf(accounts),
                                      n \in ShortNames}

(* C8 as stated: initialize_candidate called by anyone but the poll's      *)
(* creator fails with Unauthorized, creates no Candidate and leaves        *)
(* candidate_count unchanged.                                              *)
C8_NonCreatorIsUnauthorized ==
    \A ix \in CandidateCalls :
        ix.creator # accounts[ix.poll].data.creator =>
            /\ CandidateNow(ix).err = "Unauthorized"
            /\ AfterCandidate(ix) = accounts

(* C8, amended: initialize_candidate called by anyone but the poll's       *)
(* creator fails, creates no Candidate and leaves candidate_count (and the *)
(* whole store) unchanged; the failure is Unauthorized when the candidate  *)
(* address is free and AlreadyExists when that name is already registered  *)
(* in the poll (the account is created before the handler checks the       *)
(* caller).                                                                *)
C8_NonCreatorFails ==
    \A ix \in CandidateCalls :
        ix.creator # accounts[ix.poll].data.creator =>
            /\ CandidateNow(ix).err =
                  IF Occupied(accounts, ix.candidate) THEN "AlreadyExists"
                  ELSE "Unauthorized"
            /\ AfterCandidate(ix) = accounts

\* initialize_candidate was refused with Unauthorized; the poll has a creator
\* and the other wallet exists.
C8_Witness ==
    /\ last = [op |-> "initialize_candidate", err |-> "Unauthorized"]
    /\ \E p \in PollsOf(accounts) : accounts[p].data.creator \in Wallets

----------------------------------------------------------------------------
CandidatesUnder(accts, p) == {c \in CandidatesOf(accts) : accts[c].data.poll = p}

(* C9: in every reachable state each poll's candidate_count is the number  *)
(* of Candidate records whose poll is that poll; the creator registering a *)
(* new name adds exactly one record and 1 to the count, and registering a  *)
(* name that exists in the poll fails with AlreadyExists and leaves the    *)
(* count (and the store) unchanged.                                        *)
C9_CandidateCount ==
    \A p \in PollsOf(accounts) :
        /\ as_nat(accounts[p].data.candidate_count)
              = Cardinality(CandidatesUnder(accounts, p))
        /\ \A n \in ShortNames :
              LET ix == CandidateIx(accounts[p].data.creator, p, n, ShortLen)
                  post == AfterCandidate(ix)
              IN  IF Occupied(accounts, ix.candidate)
                  THEN /\ CandidateNow(ix).err = "AlreadyExists"
                       /\ post = accounts
                  ELSE /\ CandidateNow(ix).err = OK
                       /\ CandidatesUnder(post, p)
                             = CandidatesUnder(accounts, p) \cup {ix.candidate}
                       /\ as_nat(post[p].data.candidate_count)
                             = as_nat(accounts[p].data.candidate_count) + 1
                       /\ post[ix.candidate].data.votes = u64(0)

\* Two names are registered, the count is 2, and a duplicate was just refused.
C9_Witness ==
    /\ last = [op |-> "initialize_candidate", err |-> "AlreadyExists"]
    /\ \E p \in PollsOf(accounts) :
          /\ accounts[p].data.candidate_count = u64(2)
          /\ Cardinality(CandidatesUnder(accounts, p)) = 2

----------------------------------------------------------------------------
\* The store with the votes of candidate c set to the u64 maximum.
WithMaxVotes(accts, c) == [accts EXCEPT ![c].data.votes = U64_MAX]

\* The store with the candidate_count of poll p set to the u64 maximum.
WithMaxCount(accts, p) == [accts EXCEPT ![p].data.candidate_count = U64_MAX]

(* C10: every instruction is all-or-nothing.  An instruction that fails,   *)
(* for whatever reason, leaves the store exactly as it was, also when its  *)
(* account validation had already created an account; this includes the    *)
(* counter overflow, evaluated on the store with a counter at the u64      *)
(* maximum.  So in every reachable state no account is left half written   *)
(* (created but without its tag), every receipt has has_voted = TRUE, and  *)
(* there are exactly as many receipts as votes counted.                    *)
C10_AllOrNothing ==
    /\ \A ix \in InitializePollIxs(OnePoll) :
          PollNow(ix).err # OK => AfterPoll(ix) = accounts
    /\ \A ix \in InitializeCandidateIxs(OnePoll) :
          CandidateNow(ix).err # OK => AfterCandidate(ix) = accounts
    /\ \A ix \in VoteIxs(OnePoll) :
          VoteNow(ix).err # OK => AfterVote(ix) = accounts
    /\ \A v \in Wallets : \A p \in PollsOf(accounts) : \A c \in CandidatesOf(accounts) :
          LET full == WithMaxVotes(accounts, c)
              r == process_vote(full, clock, VoteIx(v, p, c))
          IN  (InWindow(accounts[p].data, clock)
               /\ ~Occupied(accounts, ReceiptAddr(p, v)))
                 => r.err = "Panic" /\ Transaction(full, r) = full
    /\ \A p \in PollsOf(accounts) : \A n \in ShortNames :
          LET full == WithMaxCount(accounts, p)
              ix == CandidateIx(accounts[p].data.creator, p, n, ShortLen)
              r == process_initialize_candidate(full, ix)
          IN  ~Occupied(accounts, ix.candidate)
                 => r.err = "Panic" /\ Transaction(full, r) = full
    /\ \A a \in DOMAIN accounts : accounts[a].disc # ZERO_DISCRIMINATOR
    /\ \A r \in ReceiptsOf(accounts) : accounts[r].data.has_voted
    /\ TotalVotes(accounts) = Cardinality(ReceiptsOf(accounts))

\* A vote was refused for the time, after its receipt had been created in
\* validation: no receipt is left, and no vote is counted.
C10_Witness ==
    /\ last = [op |-> "vote", err |-> "PollNotActive"]
    /\ CandidatesOf(accounts) # {}
    /\ ReceiptsOf(accounts) = {}
    /\ TotalVotes(accounts) = 0
    /\ \E ix \in VoteIxs(OnePoll) :
          /\ VoteNow(ix).err = "PollNotActive"
          /\ ix.voter_receipt \in DOMAIN VoteNow(ix).accounts

----------------------------------------------------------------------------
(* C4 as stated: for every poll on the ledger and every name, the          *)
(* candidate address the program's validation of initialize_candidate      *)
(* requires is the one the client derives, from ("candidate",              *)
(* little-endian poll_id, name).                                           *)
C4_CandidateAddressesAgree ==
    \A p \in PollsOf(accounts) : \A n \in ShortNames :
        find_program_address(CandidateSeeds(p, n))
            = get_candidate_address(accounts[p].data.poll_id, n)

(* C5 as stated: for every poll on the ledger and every voter, the receipt *)
(* address the program's validation of vote requires is the one the client *)
(* derives, from ("receipt", little-endian poll_id, voter).                *)
C5_ReceiptAddressesAgree ==
    \A p \in PollsOf(accounts) : \A v \in Wallets :
        find_program_address(ReceiptSeeds(p, v))
            = get_receipt_address(accounts[p].data.poll_id, v)

----------------------------------------------------------------------------
\* program.account::<T>(address) of the client: the record at the address, or an
\* error when no account is there or its tag is another one.
account(accts, addr, disc) ==
    IF ~Occupied(accts, addr) THEN [err |-> "AccountNotFound", data |-> None]
    ELSE IF accts[addr].disc # disc
    THEN [err |-> "AccountDiscriminatorMismatch", data |-> None]
    ELSE [err |-> OK, data |-> accts[addr].data]

\* VotingClient::has_voted: the receipt's flag, FALSE when the fetch fails.
VotingClient_has_voted(accts, poll_id, voter) ==
    LET r == account(accts, get_receipt_address(poll_id, voter),
                     VoterReceipt_DISCRIMINATOR)
    IN  IF r.err = OK THEN r.data.has_voted ELSE FALSE

(* C11 as stated: for every poll on the ledger and every voter,            *)
(* has_voted(poll_id, voter) is TRUE exactly when the voter has voted in   *)
(* the poll, that is when the receipt of (poll, voter) exists; it is FALSE *)
(* before the first successful vote and TRUE after it.                     *)
C11_HasVotedTellsTheReceipt ==
    \A p \in PollsOf(accounts) : \A v \in Wallets :
        VotingClient_has_voted(accounts, accounts[p].data.poll_id, v)
            <=> Occupied(accounts, ReceiptAddr(p, v))

----------------------------------------------------------------------------
\* The poll addresses the calls below name: poll 1's, and poll 2's, which no
\* instruction of this specification creates.
NamedPolls == PollAddrs({u64(1), u64(2)})

\* Candidate addresses under those polls, for the names "A" and "B".
NamedCandidates ==
    {find_program_address(CandidateSeeds(p, n)) : p \in NamedPolls, n \in ShortNames}

(* C12: initialize_candidate naming a poll address where no account exists *)
(* fails (AccountNotInitialized) and leaves the store unchanged, so no     *)
(* Candidate is created; vote naming a poll or a candidate address where   *)
(* no account exists fails the same way, creates no receipt and changes no *)
(* votes.                                                                  *)
C12_PollThenCandidateThenVote ==
    /\ \A w \in Wallets : \A p \in NamedPolls : \A n \in ShortNames :
          ~Occupied(accounts, p) =>
             /\ CandidateNow(CandidateIx(w, p, n, ShortLen)).err = "AccountNotInitialized"
             /\ AfterCandidate(CandidateIx(w, p, n, ShortLen)) = accounts
    /\ \A v \in Wallets : \A p \in NamedPolls : \A c \in NamedCandidates :
          (~Occupied(accounts, p) \/ ~Occupied(accounts, c)) =>
             /\ VoteNow(VoteIx(v, p, c)).err = "AccountNotInitialized"
             /\ AfterVote(VoteIx(v, p, c)) = accounts
             /\ ReceiptsOf(AfterVote(VoteIx(v, p, c))) = ReceiptsOf(accounts)
             /\ TotalVotes(AfterVote(VoteIx(v, p, c))) = TotalVotes(accounts)

\* A vote was refused because its candidate does not exist: the poll is there,
\* open, with one candidate registered and the other not.
C12_Witness ==
    /\ last = [op |-> "vote", err |-> "AccountNotInitialized"]
    /\ \E p \in PollsOf(accounts) : InWindow(accounts[p].data, clock)
    /\ Cardinality(CandidatesOf(accounts)) = 1
    /\ \E c \in NamedCandidates : ~Occupied(accounts, c)

----------------------------------------------------------------------------
(* Counters at the top of the u64 range.  The handlers read a counter only *)
(* through checked_add, so the instructions are applied to stores whose    *)
(* counters are drawn from the two largest u64 values.                     *)

\* 2^64 - 2
U64_MAX_LESS_ONE == <<LIMB - 2, LIMB - 1, LIMB - 1, LIMB - 1>>

HighCounters == {U64_MAX_LESS_ONE, U64_MAX}

\* Poll 1 of wallet 1, open from 1 to 2, with candidate "A" registered; the
\* poll's candidate_count is count and the votes of "A" are votes.
OverflowStore(count, votes) ==
    LET p == PollIx(Wallet(1), u64(1), ShortLen, <<1, 2>>)
        s1 == Transaction(NoAccounts, process_initialize_poll(NoAccounts, p))
        a == CandidateIx(Wallet(1), p.poll, <<65>>, ShortLen)
        s2 == Transaction(s1, process_initialize_candidate(s1, a))
    IN  [s2 EXCEPT ![p.poll].data.candidate_count = count,
                   ![a.candidate].data.votes = votes]

OverflowInit ==
    /\ accounts \in {OverflowStore(c, v) : c \in HighCounters, v \in HighCounters}
    /\ clock = 0
    /\ last = [op |-> "none", err |-> OK]
    /\ inflight = {}

NextOverflow ==
    \/ \E ix \in InitializeCandidateIxs(OnePoll) : SendInitializeCandidate(ix)
    \/ \E ix \in VoteIxs(OnePoll) : SendVote(ix)
    \/ Tick

SpecOverflow == OverflowInit /\ [][NextOverflow]_vars

(* C13: counter increments never wrap.  initialize_candidate by the        *)
(* creator, for a free name, on a poll whose candidate_count is the u64    *)
(* maximum fails (the unwrap of checked_add panics) and leaves the store   *)
(* unchanged: no Candidate is created, the count stays at the maximum; one *)
(* below the maximum it succeeds and the count becomes the maximum.  vote  *)
(* inside the window, by a voter without a receipt, for a candidate whose  *)
(* votes are the u64 maximum fails the same way and leaves the store       *)
(* unchanged: no receipt, votes still the maximum; one below the maximum   *)
(* it succeeds and the votes become the maximum.  No counter that started  *)
(* at the top of the range is ever seen lower.                             *)
C13_NoWrap ==
    \A p \in PollsOf(accounts) :
       /\ accounts[p].data.candidate_count \in HighCounters
       /\ accounts[CandidateA(p)].data.votes \in HighCounters
       /\ \A n \in ShortNames :
             LET ix == CandidateIx(accounts[p].data.creator, p, n, ShortLen)
             IN  ~Occupied(accounts, ix.candidate) =>
                   IF accounts[p].data.candidate_count = U64_MAX
                   THEN /\ CandidateNow(ix).err = "Panic"
                        /\ AfterCandidate(ix) = accounts
                   ELSE /\ CandidateNow(ix).err = OK
                        /\ AfterCandidate(ix)[p].data.candidate_count = U64_MAX
       /\ \A v \in Wallets :
             LET ix == VoteIx(v, p, CandidateA(p))
             IN  (InWindow(accounts[p].data, clock)
                  /\ ~Occupied(accounts, ix.voter_receipt)) =>
                   IF accounts[CandidateA(p)].data.votes = U64_MAX
                   THEN /\ VoteNow(ix).err = "Panic"
                        /\ AfterVote(ix) = accounts
                   ELSE /\ VoteNow(ix).err = OK
                        /\ AfterVote(ix)[CandidateA(p)].data.votes = U64_MAX

\* A vote for a candidate whose votes had reached the u64 maximum panicked, on a
\* poll whose candidate_count had reached the maximum by a registration.
C13_Witness ==
    /\ last = [op |-> "vote", err |-> "Panic"]
    /\ \E p \in PollsOf(accounts) :
          /\ accounts[p].data.candidate_count = U64_MAX
          /\ accounts[CandidateA(p)].data.votes = U64_MAX
          /\ Cardinality(CandidatesOf(accounts)) = 2
          /\ ReceiptsOf(accounts) # {}

----------------------------------------------------------------------------
(* Address derivation as a function of its seed tuple.  The derivations    *)
(* are applied to tuples drawn from small sets and the results are kept,   *)
(* next to the tuple they were derived from, in `inflight`.                *)

MaxDerived == 2

\* Poll ids that differ in their low byte, and two that agree in it.
DeriveIds == {u64(1), u64(2), u64(257)}

\* "A", "B", "AB"
DeriveNames == {<<65>>, <<66>>, <<65, 66>>}

\* The address `who` (the client's helpers, or the program's seeds) derives in
\* namespace ns for the poll id, the candidate name and the voter.
derive(who, ns, id, name, voter) ==
    IF ns = "poll"
    THEN IF who = "client" THEN get_poll_address(id)
         ELSE find_program_address(PollSeeds(id))
    ELSE IF ns = "candidate"
    THEN IF who = "client" THEN get_candidate_address(id, name)
         ELSE find_program_address(
                  CandidateSeeds(find_program_address(PollSeeds(id)), name))
    ELSE IF who = "client" THEN get_receipt_address(id, voter)
         ELSE find_program_address(
                  ReceiptSeeds(find_program_address(PollSeeds(id)), voter))

\* The seed tuples: a poll has no secondary key, a candidate has a name, a
\* receipt has a voter.
SeedTuples ==
    {[ns |-> "poll", id |-> i, name |-> <<>>, voter |-> DefaultKey] : i \in DeriveIds}
    \cup {[ns |-> "candidate", id |-> i, name |-> n, voter |-> DefaultKey] :
             i \in DeriveIds, n \in DeriveNames}
    \cup {[ns |-> "receipt", id |-> i, name |-> <<>>, voter |-> v] :
             i \in DeriveIds, v \in Wallets}

DeriveInit ==
    /\ accounts = NoAccounts
    /\ clock = 0
    /\ last = [op |-> "none", err |-> OK]
    /\ inflight = {}

Derive(who, tup) ==
    /\ Cardinality(inflight) < MaxDerived
    /\ inflight' = inflight \cup
          {[who |-> who, tup |-> tup,
            addr |-> derive(who, tup.ns, tup.id, tup.name, tup.voter)]}
    /\ UNCHANGED <<accounts, clock, last>>

NextDerive == \E who \in {"client", "program"} : \E tup \in SeedTuples : Derive(who, tup)

SpecDerive == DeriveInit /\ [][NextDerive]_vars

(* C14: derivation is deterministic and injective on seed tuples.          *)
(* Deriving again from a kept tuple gives the kept address; two tuples     *)
(* derived by the same side (the client's helpers, or the program's seeds) *)
(* that differ in namespace, poll id, candidate name or voter have         *)
(* different seed byte strings and so different addresses; and addresses   *)
(* of different namespaces differ whoever derived them, so a Poll, a       *)
(* Candidate and a VoterReceipt never share an address.                    *)
C14_DerivationInjective ==
    \A e1 \in inflight : \A e2 \in inflight :
        /\ e1.addr = derive(e1.who, e1.tup.ns, e1.tup.id, e1.tup.name, e1.tup.voter)
        /\ (e1.who = e2.who /\ e1.tup # e2.tup) =>
              /\ e1.addr.pre # e2.addr.pre
              /\ e1.addr # e2.addr
        /\ e1.tup.ns # e2.tup.ns => e1.addr # e2.addr

\* The program's candidate addresses for the poll ids 1 and 257, which agree in
\* their low byte, and the same name were derived, and they differ.
C14_Witness ==
    \E e1 \in inflight : \E e2 \in inflight :
        /\ e1.who = "program" /\ e2.who = "program"
        /\ e1.tup.ns = "candidate" /\ e2.tup.ns = "candidate"
        /\ e1.tup.id = u64(1) /\ e2.tup.id = u64(257)
        /\ e1.tup.name = e2.tup.name
        /\ e1.addr # e2.addr

----------------------------------------------------------------------------
(* Two polls on the ledger.  Poll 1 of wallet 1 is open from 1 to 2, poll  *)
(* 2 of wallet 2 from 2 to 3; candidates are registered and votes cast in  *)
(* both, with every combination of poll and candidate accounts.            *)

TwoPolls == {u64(1), u64(2)}

TwoPollStore ==
    LET p1 == PollIx(Wallet(1), u64(1), ShortLen, <<1, 2>>)
        s1 == Transaction(NoAccounts, process_initialize_poll(NoAccounts, p1))
        p2 == PollIx(Wallet(2), u64(2), ShortLen, <<2, 3>>)
    IN  Transaction(s1, process_initialize_poll(s1, p2))

TwoPollsInit ==
    /\ accounts = TwoPollStore
    /\ clock = 0
    /\ last = [op |-> "none", err |-> OK]
    /\ inflight = {}

\* The instructions submitted with two polls: well-formed ones, by either wallet,
\* for either poll, for the candidate name "A", and votes naming the poll account
\* of one poll with the candidate of either.
TwoPollsPollIxs ==
    {PollIx(w, p, ShortLen, <<1, 3>>) : w \in Wallets, p \in TwoPolls}

TwoPollsCandidateIxs ==
    {CandidateIx(w, pa, <<65>>, ShortLen) : w \in Wallets, pa \in PollAddrs(TwoPolls)}

TwoPollsVoteIxs ==
    {VoteIx(w, pa, CandidateA(pb)) :
        w \in Wallets, pa \in PollAddrs(TwoPolls), pb \in PollAddrs(TwoPolls)}

NextTwoPolls ==
    \/ \E ix \in TwoPollsPollIxs : SendInitializePoll(ix)
    \/ \E ix \in TwoPollsCandidateIxs : SendInitializeCandidate(ix)
    \/ \E ix \in TwoPollsVoteIxs : SendVote(ix)
    \/ Tick

SpecTwoPolls == TwoPollsInit /\ [][NextTwoPolls]_vars

\* The receipts issued for poll p.
ReceiptsFor(accts, p) == {r \in ReceiptsOf(accts) : accts[r].data.poll = p}

(* C15 as stated: in every reachable state, for every poll P the sum of    *)
(* the votes of the candidates registered under P equals the number of     *)
(* voter receipts that exist for P.                                        *)
C15_TallyMatchesReceipts ==
    \A p \in PollsOf(accounts) :
        SumVotes(accounts, CandidatesUnder(accounts, p))
            = Cardinality(ReceiptsFor(accounts, p))

(* C16 as stated: whatever poll account a vote is given, a candidate's     *)
(* votes change only when the clock is inside the window of the poll the   *)
(* candidate is registered under.                                          *)
C16_VotesOnlyInOwnWindow ==
    \A v \in Wallets : \A p \in PollsOf(accounts) : \A c \in CandidatesOf(accounts) :
        AfterVote(VoteIx(v, p, c))[c].data.votes # accounts[c].data.votes
            => InWindow(accounts[accounts[c].data.poll].data, clock)

----------------------------------------------------------------------------
(* C17: in every reachable state every Candidate's poll field and every    *)
(* VoterReceipt's poll field is the address of an existing Poll, every     *)
(* Candidate sits at the address derived from its own (poll, name), every  *)
(* VoterReceipt at the address derived from its own (poll, voter), and     *)
(* every VoterReceipt has has_voted = TRUE.                                *)
C17_RecordsReferToPolls ==
    /\ \A c \in CandidatesOf(accounts) :
          /\ accounts[c].data.poll \in PollsOf(accounts)
          /\ c = find_program_address(
                    CandidateSeeds(accounts[c].data.poll, accounts[c].data.name))
    /\ \A r \in ReceiptsOf(accounts) :
          /\ accounts[r].data.poll \in PollsOf(accounts)
          /\ r = find_program_address(
                    ReceiptSeeds(accounts[r].data.poll, accounts[r].data.voter))
          /\ accounts[r].data.has_voted = TRUE

\* Candidates are registered under both polls, and a receipt exists for a poll
\* none of whose candidates has a vote: the vote went to the other poll's candidate.
C17_Witness ==
    /\ \A p \in PollsOf(accounts) : CandidatesUnder(accounts, p) # {}
    /\ \E r \in ReceiptsOf(accounts) :
          SumVotes(accounts, CandidatesUnder(accounts, accounts[r].data.poll)) = 0

----------------------------------------------------------------------------
\* A Poll record without its candidate_count.
Fixed(poll) ==
    [poll_id |-> poll.poll_id, creator |-> poll.creator, question |-> poll.question,
     description |-> poll.description, start_time |-> poll.start_time,
     end_time |-> poll.end_time]

(* C18: a Poll's poll_id, creator, question, description, start_time and   *)
(* end_time never change after creation.  In every step: no field of an    *)
(* existing Poll other than candidate_count changes; initialize_poll       *)
(* leaves every existing Poll as it is; initialize_candidate changes the   *)
(* Poll it names at most, and no existing Candidate; vote leaves every     *)
(* Poll record unchanged, changes at most one Candidate, and of that one   *)
(* only votes.                                                             *)
C18_PollFieldsFixed ==
    [][/\ \A p \in PollsOf(accounts) :
            /\ Fixed(accounts'[p].data) = Fixed(accounts[p].data)
            /\ last'.op \in {"initialize_poll", "vote"} => accounts'[p] = accounts[p]
       /\ last'.op = "initialize_candidate" =>
            /\ Cardinality({p \in PollsOf(accounts) : accounts'[p] # accounts[p]}) <= 1
            /\ \A c \in CandidatesOf(accounts) : accounts'[c] = accounts[c]
       /\ last'.op = "vote" =>
            /\ Cardinality({c \in CandidatesOf(accounts) : accounts'[c] # accounts[c]}) <= 1
            /\ \A c \in CandidatesOf(accounts) :
                  accounts'[c] = [accounts[c] EXCEPT !.data.votes = accounts'[c].data.votes]
      ]_vars

\* Both polls have a candidate and a vote has been counted: both instructions
\* have written next to the polls, which still have the windows they were
\* created with.
C18_Witness ==
    /\ \A p \in PollsOf(accounts) : accounts[p].data.candidate_count # u64(0)
    /\ TotalVotes(accounts) >= 1
    /\ last = [op |-> "vote", err |-> OK]
    /\ {<<accounts[p].data.start_time, accounts[p].data.end_time>> :
           p \in PollsOf(accounts)} = {<<1, 2>>, <<2, 3>>}

----------------------------------------------------------------------------
(* C19: state only grows.  In every step every account that exists stays,  *)
(* with the type it has: no Poll, Candidate or VoterReceipt is deleted or   *)
(* replaced; no poll's candidate_count and no candidate's votes decreases;  *)
(* and a VoterReceipt, once it exists, stays exactly as it is, so a (poll,  *)
(* voter) pair that is Voted stays Voted.                                   *)
C19_StateOnlyGrows ==
    [][/\ \A a \in DOMAIN accounts :
            /\ a \in DOMAIN accounts'
            /\ accounts'[a].disc = accounts[a].disc
       /\ \A p \in PollsOf(accounts) :
            as_nat(accounts'[p].data.candidate_count)
                >= as_nat(accounts[p].data.candidate_count)
       /\ \A c \in CandidatesOf(accounts) :
            as_nat(accounts'[c].data.votes) >= as_nat(accounts[c].data.votes)
       /\ \A r \in ReceiptsOf(accounts) :
            /\ accounts'[r] = accounts[r]
            /\ accounts'[r].data.has_voted
      ]_vars

\* After the poll's end: both candidates are registered, both voters have voted,
\* and a further initialize_poll for the same id has just been refused.
C19_Witness ==
    /\ last = [op |-> "initialize_poll", err |-> "AlreadyExists"]
    /\ \E p \in PollsOf(accounts) :
          /\ clock > accounts[p].data.end_time
          /\ accounts[p].data.candidate_count = u64(2)
    /\ Cardinality(ReceiptsOf(accounts)) = 2
    /\ TotalVotes(accounts) = 2

----------------------------------------------------------------------------
(* String lengths.  Polls and candidates are created with each string at   *)
(* a short length, at its declared maximum, one byte over it, and far over *)
(* it.                                                                     *)

QuestionLens == {ShortLen, QUESTION_MAX_LEN, QUESTION_MAX_LEN + 1, LongQuestion}

DescriptionLens == {ShortLen, DESCRIPTION_MAX_LEN, DESCRIPTION_MAX_LEN + 1}

PartyLens == {ShortLen, PARTY_MAX_LEN, PARTY_MAX_LEN + 1, LongParty}

StringsPollIxs ==
    {[PollIx(Wallet(1), u64(1), q, <<1, 2>>) EXCEPT !.description = d] :
        q \in QuestionLens, d \in DescriptionLens}

StringsCandidateIxs ==
    {CandidateIx(Wallet(1), pa, n, l) :
        pa \in PollAddrs(OnePoll), n \in ShortNames \cup {LongName}, l \in PartyLens}

NextStrings ==
    \/ \E ix \in StringsPollIxs : SendInitializePoll(ix)
    \/ \E ix \in StringsCandidateIxs : SendInitializeCandidate(ix)

SpecStrings == Init /\ [][NextStrings]_vars

(* C20 as stated: every stored Poll has a question of at most 200 bytes    *)
(* and a description of at most 280 bytes, and every stored Candidate a    *)
(* name of at most 50 bytes and a party of at most 30 bytes.               *)
C20_StringsWithinBounds ==
    /\ \A p \in PollsOf(accounts) :
          /\ accounts[p].data.question <= QUESTION_MAX_LEN
          /\ accounts[p].data.description <= DESCRIPTION_MAX_LEN
    /\ \A c \in CandidatesOf(accounts) :
          /\ Len(accounts[c].data.name) <= NAME_MAX_LEN
          /\ accounts[c].data.party <= PARTY_MAX_LEN

----------------------------------------------------------------------------
\* Voter v has a receipt for poll p.
Voted(accts, p, v) == \E r \in ReceiptsFor(accts, p) : accts[r].data.voter = v

(* C21: receipts are scoped to the (poll, voter) pair.  Inside a poll's    *)
(* window, a vote by voter v for a candidate of poll P succeeds exactly    *)
(* when no receipt of (P, v) exists, and fails with AlreadyExists when one *)
(* does: neither v's receipts in another poll nor another voter's receipt  *)
(* in P make any difference.                                               *)
C21_ReceiptsScopedToPair ==
    \A v \in Wallets : \A p \in PollsOf(accounts) :
        \A c \in CandidatesUnder(accounts, p) :
            InWindow(accounts[p].data, clock) =>
                VoteNow(VoteIx(v, p, c)).err =
                    IF Voted(accounts, p, v) THEN "AlreadyExists" ELSE OK

\* A voter has voted in both polls, each vote counted in the poll it was cast in,
\* and the other voter has voted in one of them too.
C21_Witness ==
    /\ \E v \in Wallets : \A p \in PollsOf(accounts) : Voted(accounts, p, v)
    /\ \E p \in PollsOf(accounts) : \A v \in Wallets : Voted(accounts, p, v)
    /\ \A p \in PollsOf(accounts) :
          SumVotes(accounts, CandidatesUnder(accounts, p))
              = Cardinality(ReceiptsFor(accounts, p))
    /\ last = [op |-> "vote", err |-> OK]

----------------------------------------------------------------------------
\* A Candidate named name is registered under poll p.
Registered(accts, p, name) ==
    \E c \in CandidatesUnder(accts, p) : accts[c].data.name = name

(* C22: candidate-name uniqueness is scoped to one poll.  For every poll P *)
(* and its creator, registering the name "A" succeeds exactly when no      *)
(* Candidate "A" is registered under P, whether or not another poll has a  *)
(* candidate "A"; it then creates a separate Candidate of P with votes =   *)
(* 0, adds 1 to P's candidate_count and leaves every other account as it   *)
(* was.  When "A" is registered under P it fails with AlreadyExists.       *)
C22_NamesScopedToPoll ==
    \A p \in PollsOf(accounts) :
        LET ix == CandidateIx(accounts[p].data.creator, p, <<65>>, ShortLen)
            post == AfterCandidate(ix)
        IN  IF Registered(accounts, p, <<65>>)
            THEN CandidateNow(ix).err = "AlreadyExists"
            ELSE /\ CandidateNow(ix).err = OK
                 /\ ix.candidate \notin DOMAIN accounts
                 /\ post[ix.candidate].data =
                       [poll |-> p, name |-> <<65>>, party |-> ShortLen,
                        votes |-> u64(0)]
                 /\ as_nat(post[p].data.candidate_count)
                       = as_nat(accounts[p].data.candidate_count) + 1
                 /\ \A a \in (DOMAIN accounts) \ {p} : post[a] = accounts[a]

\* "A" has just been registered under one poll while the other poll's "A" already
\* had a vote: two records, one with votes, the new one with none, each poll
\* counting one candidate.
C22_Witness ==
    /\ last = [op |-> "initialize_candidate", err |-> OK]
    /\ \A p \in PollsOf(accounts) :
          /\ Registered(accounts, p, <<65>>)
          /\ accounts[p].data.candidate_count = u64(1)
    /\ \E c \in CandidatesOf(accounts) : accounts[c].data.votes = u64(0)
    /\ \E c \in CandidatesOf(accounts) : accounts[c].data.votes # u64(0)

----------------------------------------------------------------------------
(* Decoding by the client (cli/src/client.rs).  A blob is kept as its      *)
(* first bytes, up to 8 (`head`), and what follows them (`body`): nothing, *)
(* or the fields of a record of some kind.                                 *)

Types == {"Poll", "Candidate", "VoterReceipt"}

\* <T as Discriminator>::DISCRIMINATOR
DISCRIMINATOR(T) ==
    IF T = "Poll" THEN Poll_DISCRIMINATOR
    ELSE IF T = "Candidate" THEN Candidate_DISCRIMINATOR
    ELSE VoterReceipt_DISCRIMINATOR

\* Self::deserialize(&mut &buf[8..]): the field decoding.  It fails on an empty
\* body; on the fields of a record of another kind it is taken to succeed (the
\* bytes of an account are padded to its space), with a value read from them.
deserialize(T, body) ==
    IF body = None THEN None ELSE Some([type |-> T, read_from |-> unwrap(body)])

\* The decoding without the comparison of the tag.
try_deserialize_any_tag(T, buf) ==
    IF Len(buf.head) < 8
    THEN [err |-> "AccountDidNotDeserialize", value |-> None]
    ELSE LET d == deserialize(T, buf.body)
         IN  IF d = None THEN [err |-> "AccountDidNotDeserialize", value |-> None]
             ELSE [err |-> OK, value |-> d]

\* <T as AccountDeserialize>::try_deserialize
try_deserialize(T, buf) ==
    IF Len(buf.head) < 8
    THEN [err |-> "AccountDidNotDeserialize", value |-> None]
    ELSE IF DISCRIMINATOR(T) # buf.head
    THEN [err |-> "AccountDiscriminatorMismatch", value |-> None]
    ELSE LET d == deserialize(T, buf.body)
         IN  IF d = None THEN [err |-> "AccountDidNotDeserialize", value |-> None]
             ELSE [err |-> OK, value |-> d]

\* Blobs of fewer than 8 bytes: every proper prefix of each tag.
ShortBlobs ==
    {[head |-> SubSeq(DISCRIMINATOR(T), 1, n), body |-> None] : T \in Types, n \in 0..7}

\* Blobs of 8 bytes or more: each tag of the client, each tag the program writes
\* and the all-zero tag, followed by nothing or by the fields of a record.
LongBlobs ==
    {[head |-> h, body |-> b] :
        h \in {DISCRIMINATOR(T) : T \in Types}
              \cup {POLL_DISCRIMINATOR, CANDIDATE_DISCRIMINATOR, RECEIPT_DISCRIMINATOR,
                    ZERO_DISCRIMINATOR},
        b \in {None} \cup {Some(K) : K \in Types}}

\* A blob is decoded as T; `inflight` keeps the blob and the outcome.
Decode(T, buf) ==
    /\ inflight' = {[type |-> T, buf |-> buf, res |-> try_deserialize(T, buf)]}
    /\ UNCHANGED <<accounts, clock, last>>

NextDecode == \E T \in Types : \E buf \in ShortBlobs \cup LongBlobs : Decode(T, buf)

SpecDecode == Init /\ [][NextDecode]_vars

(* C23: decoding a blob as Poll, Candidate or VoterReceipt rejects, with   *)
(* no field decoded, every blob shorter than 8 bytes                       *)
(* (AccountDidNotDeserialize) and every blob whose first 8 bytes are not   *)
(* the requested type's tag (AccountDiscriminatorMismatch); a decoding     *)
(* that succeeds has read a blob that starts with that tag.  The three     *)
(* tags are pairwise distinct, so a blob that starts with the tag of one   *)
(* kind never decodes as another kind.                                     *)
C23_DecodeChecksTag ==
    /\ Cardinality({DISCRIMINATOR(T) : T \in Types}) = 3
    /\ \A e \in inflight :
          /\ Len(e.buf.head) < 8 =>
                e.res = [err |-> "AccountDidNotDeserialize", value |-> None]
          /\ (Len(e.buf.head) = 8 /\ e.buf.head # DISCRIMINATOR(e.type)) =>
                e.res = [err |-> "AccountDiscriminatorMismatch", value |-> None]
          /\ e.res.err = OK => e.buf.head = DISCRIMINATOR(e.type)
          /\ \A K \in Types \ {e.type} :
                e.buf.head = DISCRIMINATOR(K) => e.res.value = None

\* A blob with the Candidate tag and the fields of a Candidate was decoded as a
\* Poll and rejected for its tag.
C23_Witness ==
    \E e \in inflight :
        /\ e.type = "Poll"
        /\ e.buf = [head |-> Candidate_DISCRIMINATOR, body |-> Some("Candidate")]
        /\ e.res.err = "AccountDiscriminatorMismatch"

----------------------------------------------------------------------------
(* The client's reads of a poll and of its results.                        *)

\* VotingClient::get_poll
VotingClient_get_poll(accts, poll_id) ==
    account(accts, get_poll_address(poll_id), Poll_DISCRIMINATOR)

\* String::cmp on the bytes of two names: a < b.
RECURSIVE LexLess(_, _)
LexLess(a, b) ==
    IF b = <<>> THEN FALSE
    ELSE IF a = <<>> THEN TRUE
    ELSE IF Head(a) # Head(b) THEN Head(a) < Head(b)
    ELSE LexLess(Tail(a), Tail(b))

\* candidates.sort_by(|a, b| a.name.cmp(&b.name)) on a set of records with
\* distinct names.
RECURSIVE SortByName(_)
SortByName(S) ==
    IF S = {} THEN <<>>
    ELSE LET m == CHOOSE x \in S : \A y \in S \ {x} : LexLess(x.name, y.name)
         IN  <<m>> \o SortByName(S \ {m})

\* VotingClient::get_poll_results: the poll, then the accounts with the
\* Candidate tag whose bytes from offset 8 are the poll's address, sorted.
VotingClient_get_poll_results(accts, poll_id) ==
    LET poll == VotingClient_get_poll(accts, poll_id)
        found == {a \in DOMAIN accts :
                    /\ accts[a].disc = Candidate_DISCRIMINATOR
                    /\ accts[a].data.poll = get_poll_address(poll_id)}
    IN  IF poll.err # OK
        THEN [err |-> poll.err, poll |-> None, candidates |-> <<>>]
        ELSE [err |-> OK, poll |-> Some(poll.data),
              candidates |-> SortByName({accts[a].data : a \in found})]

(* C24 as stated: for every poll on the ledger, get_poll_results(poll_id)  *)
(* returns the Poll together with exactly the Candidate records whose poll *)
(* field is the poll's address, in ascending order of name, as many as the *)
(* returned poll's candidate_count.                                        *)
C24_ResultsListThePoll ==
    \A p \in PollsOf(accounts) :
        LET r == VotingClient_get_poll_results(accounts, accounts[p].data.poll_id)
        IN  /\ r.err = OK
            /\ r.poll = Some(accounts[p].data)
            /\ {r.candidates[i] : i \in 1..Len(r.candidates)}
                  = {accounts[c].data : c \in CandidatesUnder(accounts, p)}
            /\ Len(r.candidates) = as_nat(accounts[p].data.candidate_count)
            /\ \A i \in 1..(Len(r.candidates) - 1) :
                  LexLess(r.candidates[i].name, r.candidates[i + 1].name)

====
